---- MODULE Spec2Model ----
(***************************************************************************)
(* Server facade of src/server/index.ts: the own capability set, the tool  *)
(* registry, the fixed-resource and resource-template registries, and the  *)
(* request handlers the registries install.                                *)
(*                                                                         *)
(* A JavaScript object used as a map is a sequence of [key, value] own     *)
(* properties in creation order, looked up through Object.prototype, and   *)
(* enumerated in own-property-key order.  An optional value is the empty   *)
(* sequence (undefined) or a one-element sequence.                         *)
(***************************************************************************)
EXTENDS Integers, Sequences, FiniteSets, TLC

VARIABLES
    _clientCapabilities,          \* Server._clientCapabilities, undefined until a handshake
    _clientVersion,               \* Server._clientVersion, undefined until a handshake
    _capabilities,                \* Server._capabilities: feature -> set of sub-options
    transport,                    \* Protocol.transport is set
    _requestHandlers,             \* method -> installer owning its handler, or "none"
    _registeredTools,             \* Server._registeredTools
    _registeredResources,         \* Server._registeredResources
    _registeredResourceTemplates, \* Server._registeredResourceTemplates
    pending,                      \* inbound requests suspended on a callback
    result                        \* what the latest step returned, threw or sent

vars == << _clientCapabilities, _clientVersion, _capabilities, transport,
           _requestHandlers, _registeredTools, _registeredResources,
           _registeredResourceTemplates, pending, result >>

\* what the handshake records of the peer
peer == << _clientCapabilities, _clientVersion >>

registries == << _registeredTools, _registeredResources, _registeredResourceTemplates >>

(***************************************************************************)
(* Bounds of the model.                                                    *)
(***************************************************************************)
MaxEntries == 3     \* entries held by the three registries together
MaxInFlight == 1    \* inbound requests suspended on a callback at once

(***************************************************************************)
(* JavaScript values.                                                      *)
(***************************************************************************)
None == << >>
Some(x) == << x >>
IsSome(o) == Len(o) > 0
Get(o) == o[1]

Str(s) == [type |-> "string", str |-> s]
Num(n) == [type |-> "number", num |-> n]
Obj(fields) == [type |-> "object", fields |-> fields]
Fn(f) == [type |-> "function", fn |-> f]

\* a record, as a function on its field names
EmptyObject == [k \in {} |-> None]

\* {...a, ...b}: the fields of both, b's value where both have the field
Spread(a, b) ==
    [k \in (DOMAIN a) \cup (DOMAIN b) |-> IF k \in DOMAIN b THEN b[k] ELSE a[k]]

(***************************************************************************)
(* A plain object used as a map.                                           *)
(***************************************************************************)
\* names every object literal inherits from Object.prototype
ObjectPrototypeKeys == {"constructor", "toString", "valueOf", "hasOwnProperty"}

\* the value of a canonical array-index key, -1 for any other key
ArrayIndex(key) ==
    CASE key = "0" -> 0
      [] key = "1" -> 1
      [] key = "2" -> 2
      [] OTHER -> -1

HasOwn(obj, key) == \E i \in 1..Len(obj) : obj[i].key = key

OwnValue(obj, key) == obj[CHOOSE i \in 1..Len(obj) : obj[i].key = key].value

\* obj[key] read as a condition: own or inherited properties are truthy
Truthy(obj, key) == HasOwn(obj, key) \/ key \in ObjectPrototypeKeys

\* obj[key] = value for a key that is not an own property yet
SetNew(obj, key, value) == Append(obj, [key |-> key, value |-> value])

IsIndexEntry(e) == ArrayIndex(e.key) >= 0

RECURSIVE SortByIndex(_)
SortByIndex(entries) ==
    IF entries = << >> THEN << >>
    ELSE LET m == CHOOSE i \in 1..Len(entries) :
                    \A j \in 1..Len(entries) :
                        ArrayIndex(entries[i].key) <= ArrayIndex(entries[j].key)
             rest == [k \in 1..(Len(entries) - 1) |->
                        IF k < m THEN entries[k] ELSE entries[k + 1]]
         IN  << entries[m] >> \o SortByIndex(rest)

IsOtherEntry(e) == ~IsIndexEntry(e)

\* Object.entries(obj): array-index keys ascending, then the others as created
ObjectEntries(obj) ==
    SortByIndex(SelectSeq(obj, IsIndexEntry)) \o SelectSeq(obj, IsOtherEntry)

\* Object.values(obj)
ObjectValues(obj) ==
    LET entries == ObjectEntries(obj)
    IN  [i \in 1..Len(entries) |-> entries[i].value]

(***************************************************************************)
(* Capabilities and the request handler table.                             *)
(***************************************************************************)
NoCapabilities == [k \in {} |-> {}]

\* options.capabilities given to the constructor
ConstructorCapabilities ==
    { NoCapabilities, [logging |-> {}, tools |-> {"listChanged"}] }

Declared(feature) == feature \in DOMAIN _capabilities

mergeCapabilities(base, additional) ==
    [k \in (DOMAIN base) \cup (DOMAIN additional) |->
        (IF k \in DOMAIN base THEN base[k] ELSE {})
            \cup (IF k \in DOMAIN additional THEN additional[k] ELSE {})]

ToolMethods == {"tools/list", "tools/call"}
ResourceMethods == {"resources/list", "resources/templates/list", "resources/read"}
Methods == ToolMethods \cup ResourceMethods

\* the guard refuses a method whose handler is owned by a different installer
assertCanSetRequestHandler(method, installer) ==
    _requestHandlers[method] \in {"none", installer}

Installed(methods) == \A m \in methods : _requestHandlers[m] = "server"

(***************************************************************************)
(* Outcomes of a step.                                                     *)
(***************************************************************************)
NoResult == [op |-> "none"]

Returned(op, key) == [op |-> op, key |-> key, threw |-> None]
Threw(op, key, error) == [op |-> op, key |-> key, threw |-> Some(error)]

Entries ==
    Len(_registeredTools) + Len(_registeredResources)
        + Len(_registeredResourceTemplates)

(***************************************************************************)
(* Server.tool                                                             *)
(***************************************************************************)
ToolNames == {"echo", "now", "constructor"}

TextShape == [text |-> "string"]

\* calls of tool(name, ...rest), over its four overloads
ToolCalls ==
    { << "now", << Fn("cbNow") >> >>,
      << "now", << Str("Current time"), Fn("cbTime") >> >>,
      << "echo", << Obj(TextShape), Fn("cbEcho") >> >>,
      << "echo", << Str("Echoes text"), Obj(TextShape), Fn("cbRepeat") >> >>,
      << "constructor", << Fn("cbNow") >> >> }

\* the RegisteredTool that tool() builds from the rest arguments
RegisteredTool(rest) ==
    LET hasDescription == rest[1].type = "string"
        rest1 == IF hasDescription THEN Tail(rest) ELSE rest
        hasSchema == Len(rest1) > 1
        rest2 == IF hasSchema THEN Tail(rest1) ELSE rest1
    IN  [ description |-> IF hasDescription THEN Some(rest[1].str) ELSE None,
          inputSchema |-> IF hasSchema THEN Some(rest1[1].fields) ELSE None,
          callback |-> Some(rest2[1].fn) ]

\* the guard looks at nothing
assertRequestHandlerCapability_Lenient(method) == TRUE

\* whether assertRequestHandlerCapability returns; it throws otherwise
assertRequestHandlerCapability(method) ==
    CASE method = "sampling/createMessage" -> Declared("sampling")
      [] method = "logging/setLevel" -> Declared("logging")
      [] method \in {"prompts/get", "prompts/list"} -> Declared("prompts")
      [] method \in {"resources/list", "resources/templates/list", "resources/read"} ->
            Declared("resources")
      [] method \in {"tools/call", "tools/list"} -> Declared("tools")
      [] method \in {"ping", "initialize"} -> TRUE
      [] OTHER -> TRUE

\* Protocol.setRequestHandler called by the application: the guard first, then
\* the handler is installed in place of any earlier one
SetRequestHandler(method) ==
    /\ IF assertRequestHandlerCapability(method)
       THEN /\ _requestHandlers' = [_requestHandlers EXCEPT ![method] = "application"]
            /\ result' = Returned("setRequestHandler", method)
       ELSE /\ result' = Threw("setRequestHandler", method, "does not support")
            /\ UNCHANGED _requestHandlers
    /\ UNCHANGED << peer, _capabilities, transport, registries, pending >>

\* the refusal is missing
CanRegisterCapabilities_Always == TRUE

\* registerCapabilities refuses once a transport is attached
CanRegisterCapabilities == ~transport

\* the new capabilities replace the set instead of being merged into it
registerCapabilities_Replaces(capabilities) == capabilities

\* this._capabilities after registerCapabilities(capabilities) went through
registerCapabilities(capabilities) == mergeCapabilities(_capabilities, capabilities)

\* capabilities an application registers by itself
RegisteredCapabilities == { [prompts |-> {"listChanged"}], [logging |-> {}] }

\* the application calls registerCapabilities
RegisterCapabilities(capabilities) ==
    /\ IF CanRegisterCapabilities
       THEN /\ _capabilities' = registerCapabilities(capabilities)
            /\ result' = Returned("registerCapabilities", "capabilities")
       ELSE /\ result' = Threw("registerCapabilities", "capabilities",
                               "Cannot register capabilities after connecting to transport")
            /\ UNCHANGED _capabilities
    /\ UNCHANGED << peer, transport, _requestHandlers, registries, pending >>

\* whether setToolRequestHandlers runs to its end
ToolHandlersSettable ==
    /\ \A m \in ToolMethods : assertCanSetRequestHandler(m, "server")
    /\ CanRegisterCapabilities

ToolHandlersError ==
    IF \E m \in ToolMethods : ~assertCanSetRequestHandler(m, "server")
    THEN "handler exists"
    ELSE "Cannot register capabilities after connecting to transport"

\* the duplicate check is missing
ToolAlreadyRegistered_Never(name) == FALSE

\* if (this._registeredTools[name])
ToolAlreadyRegistered(name) == Truthy(_registeredTools, name)

Tool(name, rest) ==
    /\ ToolAlreadyRegistered(name) \/ Entries < MaxEntries
    /\ IF ToolAlreadyRegistered(name)
       THEN /\ result' = Threw("tool", name, "already registered")
            /\ UNCHANGED << _capabilities, _requestHandlers, _registeredTools >>
       ELSE /\ _registeredTools' = SetNew(_registeredTools, name, RegisteredTool(rest))
            /\ IF ToolHandlersSettable
               THEN /\ _capabilities' = registerCapabilities([tools |-> {}])
                    /\ _requestHandlers' =
                          [m \in Methods |->
                              IF m \in ToolMethods THEN "server"
                              ELSE _requestHandlers[m]]
                    /\ result' = Returned("tool", name)
               ELSE /\ result' = Threw("tool", name, ToolHandlersError)
                    /\ UNCHANGED << _capabilities, _requestHandlers >>
    /\ UNCHANGED << peer, transport, _registeredResources,
                    _registeredResourceTemplates, pending >>

(***************************************************************************)
(* Inbound requests.  A request is dispatched to the handler installed for *)
(* its method; it arrives over the transport.                              *)
(***************************************************************************)
Dispatchable(method) == transport /\ _requestHandlers[method] = "server"

\* a response placed on the wire: the handler's result, or the error it threw
Response(request, calls, outcome) ==
    [op |-> "response", request |-> request, calls |-> calls, outcome |-> outcome]

Result(value) == [kind |-> "result", value |-> value]
McpError(code, about) == [kind |-> "error", code |-> code, about |-> about]
\* any other fault leaving a handler, as the dispatch layer reports it
Failure(fault) == [kind |-> "error", code |-> "InternalError", about |-> fault.string]

\* a suspended handler: the request, the callbacks invoked for it so far, and
\* what the handler holds across the suspension
Suspended(request, calls, held) ==
    [request |-> request, calls |-> calls, held |-> held]

\* a callback invoked with args, and how it settled once it has
Invocation(fn, args) == [fn |-> fn, args |-> args, settled |-> None]

\* the log with its latest invocation settled
Settle(calls, how, with) ==
    [calls EXCEPT ![Len(calls)].settled = Some([how |-> how, with |-> with])]

\* callbacks whose promise never settles
NeverCompletes == { "cbNever", "readNever" }

\* the callback a suspended handler is waiting for
AwaitedCallback(p) == p.calls[Len(p.calls)].fn

\* the requests whose awaited callback is going to settle
InFlight == { p \in pending : AwaitedCallback(p) \notin NeverCompletes }

\* the handlers take turns: one resumes only when no other is suspended
Awaited_Serialized(p) ==
    /\ pending = {p}
    /\ AwaitedCallback(p) \notin NeverCompletes

\* `await` of p's callback can resume: each suspended handler waits for its
\* own callback only
Awaited(p) ==
    /\ p \in pending
    /\ AwaitedCallback(p) \notin NeverCompletes

\* faults a callback raises: an Error instance, or a thrown non-Error value
ErrorInstance(message) ==
    [instanceofError |-> TRUE, message |-> Some(message),
     string |-> "Error: " \o message]
Thrown(value) == [instanceofError |-> FALSE, message |-> None, string |-> value]

Faults == { ErrorInstance("boom"), Thrown("oops") }

NotAFunction == ErrorInstance("cb is not a function")

(***************************************************************************)
(* tools/list                                                              *)
(***************************************************************************)
EMPTY_OBJECT_JSON_SCHEMA == [type |-> "object"]

\* zodToJsonSchema(z.object(shape))
zodToJsonSchema(shape) ==
    [ type |-> "object",
      properties |-> [f \in DOMAIN shape |-> [type |-> shape[f]]],
      required |-> DOMAIN shape ]

ListedTool(entry) ==
    [ name |-> entry.key,
      description |-> entry.value.description,
      inputSchema |->
          IF IsSome(entry.value.inputSchema)
          THEN zodToJsonSchema(Get(entry.value.inputSchema))
          ELSE EMPTY_OBJECT_JSON_SCHEMA ]

ListToolsResult ==
    LET entries == ObjectEntries(_registeredTools)
    IN  [i \in 1..Len(entries) |-> ListedTool(entries[i])]

ListToolsRequest ==
    /\ Dispatchable("tools/list")
    /\ result' = Response([method |-> "tools/list"], << >>, Result(ListToolsResult))
    /\ UNCHANGED << peer, _capabilities, transport, _requestHandlers, registries, pending >>

(***************************************************************************)
(* tools/call                                                              *)
(***************************************************************************)
\* request.params.arguments
ToolArguments ==
    { None,
      Some(EmptyObject),
      Some([text |-> Str("hi")]),
      Some([text |-> Num(5)]),
      Some([text |-> Str("hi"), extra |-> Num(1)]) }

\* what a member inherited from Object.prototype offers as a RegisteredTool
InheritedMember == [description |-> None, inputSchema |-> None, callback |-> None]

\* this._registeredTools[name], for a name that reads truthy
LookupTool(name) ==
    IF HasOwn(_registeredTools, name)
    THEN OwnValue(_registeredTools, name)
    ELSE InheritedMember

\* z.object(shape).safeParseAsync(arguments): every field of the shape is
\* required and typed, fields outside the shape are stripped
safeParse(shape, arguments) ==
    IF /\ IsSome(arguments)
       /\ \A f \in DOMAIN shape :
              /\ f \in DOMAIN Get(arguments)
              /\ Get(arguments)[f].type = shape[f]
    THEN [success |-> TRUE, data |-> [f \in DOMAIN shape |-> Get(arguments)[f]]]
    ELSE [success |-> FALSE, data |-> EmptyObject]

\* error instanceof Error ? error.message : String(error)
FaultText(error) ==
    IF error.instanceofError THEN Get(error.message) ELSE error.string

ErrorResult(error) ==
    [content |-> << [type |-> "text", text |-> FaultText(error)] >>,
     isError |-> Some(TRUE)]

\* the catch block around the callback of a tool with an input schema
CaughtWithSchema(error) == Result(ErrorResult(error))

\* the fault leaves the handler instead of being caught
CaughtWithoutSchema_Rethrown(error) == Failure(error)

\* the catch block around the callback of a tool without an input schema
CaughtWithoutSchema(error) == Result(ErrorResult(error))

\* what the callbacks of tools return
ToolResults ==
    { [content |-> << [type |-> "text", text |-> "hi"] >>, isError |-> None] }

\* the parse result is not looked at
ArgumentsAccepted_Unchecked(tool, arguments) == TRUE

\* whether validation lets the call through to the callback
ArgumentsAccepted(tool, arguments) ==
    IsSome(tool.inputSchema) => safeParse(Get(tool.inputSchema), arguments).success

\* the arguments the callback is invoked with, besides the call context
CallbackArguments(tool, arguments) ==
    IF IsSome(tool.inputSchema)
    THEN Some(safeParse(Get(tool.inputSchema), arguments).data)
    ELSE None

CallToolRequest(name, arguments) ==
    LET request == [method |-> "tools/call", name |-> name, arguments |-> arguments]
        tool == LookupTool(name)
    IN  /\ Dispatchable("tools/call")
        /\ IF ~Truthy(_registeredTools, name)
           THEN /\ result' = Response(request, << >>,
                                      McpError("InvalidParams", name))
                /\ UNCHANGED pending
           ELSE IF ~ArgumentsAccepted(tool, arguments)
           THEN /\ result' = Response(request, << >>,
                                      McpError("InvalidParams", name))
                /\ UNCHANGED pending
           ELSE IF ~IsSome(tool.callback)
           THEN \* calling undefined throws inside the try block
                /\ result' = Response(request, << >>,
                                      CaughtWithoutSchema(NotAFunction))
                /\ UNCHANGED pending
           ELSE /\ Cardinality(InFlight) < MaxInFlight
                /\ pending' = pending \cup
                      { Suspended(request,
                                  << Invocation(Get(tool.callback),
                                                CallbackArguments(tool, arguments)) >>,
                                  [validated |-> IsSome(tool.inputSchema)]) }
                /\ result' = NoResult
        /\ UNCHANGED << peer, _capabilities, transport, _requestHandlers, registries >>

\* the awaited tool callback returns
ToolCallbackReturns(p, value) ==
    /\ Awaited(p)
    /\ p.request.method = "tools/call"
    /\ pending' = pending \ {p}
    /\ result' = Response(p.request, Settle(p.calls, "returned", value), Result(value))
    /\ UNCHANGED << peer, _capabilities, transport, _requestHandlers, registries >>

\* the awaited tool callback throws or rejects
ToolCallbackThrows(p, error) ==
    /\ Awaited(p)
    /\ p.request.method = "tools/call"
    /\ pending' = pending \ {p}
    /\ result' = Response(p.request, Settle(p.calls, "threw", error),
                          IF p.held.validated THEN CaughtWithSchema(error)
                          ELSE CaughtWithoutSchema(error))
    /\ UNCHANGED << peer, _capabilities, transport, _requestHandlers, registries >>

(***************************************************************************)
(* Addresses and address templates.                                        *)
(***************************************************************************)
SpecialSchemes == {"http", "https", "ws", "wss", "ftp", "file"}

\* the components the URL parser finds in an address
URLRecord(address) ==
    CASE address = "mem://greeting" ->
            [scheme |-> "mem", host |-> "greeting", path |-> ""]
      [] address = "mem://stalled" ->
            [scheme |-> "mem", host |-> "stalled", path |-> ""]
      [] address = "http://example.com" ->
            [scheme |-> "http", host |-> "example.com", path |-> ""]
      [] address = "http://example.com/" ->
            [scheme |-> "http", host |-> "example.com", path |-> "/"]
      [] OTHER ->
            [scheme |-> "", host |-> "", path |-> address]

\* new URL(address) throws unless the address has a scheme
Parses(address) == URLRecord(address).scheme # ""

\* new URL(address).toString(): a special scheme never has an empty path
Href(address) ==
    LET u == URLRecord(address)
    IN  u.scheme \o "://" \o u.host
            \o (IF u.scheme \in SpecialSchemes /\ u.path = "" THEN "/" ELSE u.path)

\* request.params.uri
Addresses == {"mem://greeting", "http://example.com", "http://example.com/", "greeting"}

\* new UriTemplate(pattern): a scheme, then a host that is a literal or a variable
UriTemplate(pattern, scheme, literal, variable) ==
    [pattern |-> pattern, scheme |-> scheme, literal |-> literal, variable |-> variable]

ItemTemplate == UriTemplate("mem://{id}", "mem", None, Some("id"))
ExactTemplate == UriTemplate("mem://greeting", "mem", Some("greeting"), None)

\* uriTemplate.match(href): the variables extracted, or none
Match(uriTemplate, href) ==
    LET u == URLRecord(href)
    IN  IF u.scheme # uriTemplate.scheme \/ u.path # ""
        THEN None
        ELSE IF IsSome(uriTemplate.variable)
        THEN Some([k \in {Get(uriTemplate.variable)} |-> u.host])
        ELSE IF u.host = Get(uriTemplate.literal)
        THEN Some([k \in {} |-> ""])
        ELSE None

(***************************************************************************)
(* Server.resource                                                         *)
(***************************************************************************)
PlainText == [mimeType |-> "text/plain"]
Described == [description |-> "A greeting", mimeType |-> "text/markdown"]

\* calls of resource(name, uriOrTemplate, ...rest), over its six overloads
ResourceCalls ==
    { << "greeting", Str("mem://greeting"), << Fn("readGreeting") >> >>,
      << "site", Str("http://example.com"), << Obj(PlainText), Fn("readSite") >> >>,
      << "other", Str("mem://greeting"), << Obj(Described), Fn("readOther") >> >>,
      << "items", Obj(ItemTemplate),
         << Obj(PlainText), Fn("listItems"), Fn("readItem") >> >>,
      << "mem://greeting", Obj(ExactTemplate), << Fn("readExact") >> >>,
      << "1", Obj(ItemTemplate), << Fn("listOne"), Fn("readOne") >> >>,
      << "mem://greeting", Obj(ItemTemplate), << Obj(Described), Fn("readAny") >> >> }

\* metadata, listCallback and readCallback as resource() takes them from rest
ResourceArguments(rest) ==
    LET hasMetadata == rest[1].type = "object"
        rest1 == IF hasMetadata THEN Tail(rest) ELSE rest
        hasList == Len(rest1) > 1
        rest2 == IF hasList THEN Tail(rest1) ELSE rest1
    IN  [ metadata |-> IF hasMetadata THEN Some(rest[1].fields) ELSE None,
          listCallback |-> IF hasList THEN Some(rest1[1].fn) ELSE None,
          readCallback |-> rest2[1].fn ]

\* whether setResourceRequestHandlers runs to its end
ResourceHandlersSettable ==
    /\ \A m \in ResourceMethods : assertCanSetRequestHandler(m, "server")
    /\ CanRegisterCapabilities

ResourceHandlersError ==
    IF \E m \in ResourceMethods : ~assertCanSetRequestHandler(m, "server")
    THEN "handler exists"
    ELSE "Cannot register capabilities after connecting to transport"

\* the effect of setResourceRequestHandlers at the end of a registration
setResourceRequestHandlers(op, key) ==
    IF ResourceHandlersSettable
    THEN /\ _capabilities' = registerCapabilities([resources |-> {}])
         /\ _requestHandlers' =
               [m \in Methods |->
                   IF m \in ResourceMethods THEN "server" ELSE _requestHandlers[m]]
         /\ result' = Returned(op, key)
    ELSE /\ result' = Threw(op, key, ResourceHandlersError)
         /\ UNCHANGED << _capabilities, _requestHandlers >>

\* if (this._registeredResources[uri])
ResourceAlreadyRegistered(uri) == Truthy(_registeredResources, uri)

\* the check also looks among the fixed resources
TemplateAlreadyRegistered_Shared(name) ==
    Truthy(_registeredResourceTemplates, name) \/ Truthy(_registeredResources, name)

\* if (this._registeredResourceTemplates[name])
TemplateAlreadyRegistered(name) == Truthy(_registeredResourceTemplates, name)

registerResource(name, uri, metadata, readCallback) ==
    IF ResourceAlreadyRegistered(uri)
    THEN /\ result' = Threw("resource", uri, "already registered")
         /\ UNCHANGED << _capabilities, _requestHandlers, _registeredResources >>
    ELSE /\ _registeredResources' =
               SetNew(_registeredResources, uri,
                      [name |-> name, metadata |-> metadata,
                       readCallback |-> readCallback])
         /\ setResourceRequestHandlers("resource", uri)

registerResourceTemplate(name, uriTemplate, metadata, listCallback, readCallback) ==
    IF TemplateAlreadyRegistered(name)
    THEN /\ result' = Threw("template", name, "already registered")
         /\ UNCHANGED << _capabilities, _requestHandlers,
                         _registeredResourceTemplates >>
    ELSE /\ _registeredResourceTemplates' =
               SetNew(_registeredResourceTemplates, name,
                      [uriTemplate |-> uriTemplate, metadata |-> metadata,
                       listCallback |-> listCallback,
                       readCallback |-> readCallback])
         /\ setResourceRequestHandlers("template", name)

Resource(name, uriOrTemplate, rest) ==
    LET a == ResourceArguments(rest)
    IN  /\ \/ Entries < MaxEntries
           \/ uriOrTemplate.type = "string" /\ ResourceAlreadyRegistered(uriOrTemplate.str)
           \/ uriOrTemplate.type = "object" /\ TemplateAlreadyRegistered(name)
        /\ IF uriOrTemplate.type = "string"
           THEN /\ registerResource(name, uriOrTemplate.str, a.metadata, a.readCallback)
                /\ UNCHANGED _registeredResourceTemplates
           ELSE /\ registerResourceTemplate(name, uriOrTemplate.fields, a.metadata,
                                            a.listCallback, a.readCallback)
                /\ UNCHANGED _registeredResources
        /\ UNCHANGED << peer, transport, _registeredTools, pending >>

(***************************************************************************)
(* resources/list                                                          *)
(***************************************************************************)
MetadataFields(metadata) == IF IsSome(metadata) THEN Get(metadata) ELSE EmptyObject

\* { uri, name: resource.name, ...resource.metadata }
ListedResource(entry) ==
    Spread([uri |-> entry.key, name |-> entry.value.name],
           MetadataFields(entry.value.metadata))

HasListCallback(template) == IsSome(template.listCallback)

\* what the list callbacks of templates enumerate
ItemA == [uri |-> "mem://a", name |-> "a", mimeType |-> "application/json"]
ItemB == [uri |-> "mem://b", name |-> "b"]
Listings == { << ItemA >>, << ItemA, ItemB >> }

\* the templates the loop has not reached, from its next awaited one on
RECURSIVE SkipToListing(_)
SkipToListing(templates) ==
    IF templates = << >> \/ HasListCallback(Head(templates))
    THEN templates
    ELSE SkipToListing(Tail(templates))

\* the spread operands are swapped: the enumerated resource's fields win
MergedListing_ResourceWins(template, listing) ==
    [i \in 1..Len(listing) |-> Spread(MetadataFields(template.metadata), listing[i])]

\* { ...resource, ...template.metadata } for every enumerated resource
MergedListing(template, listing) ==
    [i \in 1..Len(listing) |-> Spread(listing[i], MetadataFields(template.metadata))]

\* the handler's return value
ListResourcesResult(resources, templateResources) == resources \o templateResources

\* the handler runs until the list callback at the head of `templates` is
\* awaited, or to its end when no list callback is left
ListResourcesContinue(request, calls, resources, templates, templateResources) ==
    LET todo == SkipToListing(templates)
    IN  IF todo = << >>
        THEN /\ pending' = { p \in pending : p.request # request }
             /\ result' = Response(request, calls,
                                   Result(ListResourcesResult(resources,
                                                              templateResources)))
        ELSE /\ pending' = { p \in pending : p.request # request } \cup
                   { Suspended(request,
                               Append(calls,
                                      Invocation(Get(Head(todo).listCallback), None)),
                               [resources |-> resources, templates |-> todo,
                                templateResources |-> templateResources]) }
             /\ result' = NoResult

\* Object.entries(this._registeredResources).map(...)
ListedResources ==
    LET entries == ObjectEntries(_registeredResources)
    IN  [i \in 1..Len(entries) |-> ListedResource(entries[i])]

\* the resource registries as a handler finds them when it starts
RegistriesNow ==
    [resources |-> _registeredResources, templates |-> _registeredResourceTemplates]

\* the request, with the registries as its handler finds them
ListResourcesMessage == [method |-> "resources/list", at |-> RegistriesNow]

ListResourcesRequest ==
    /\ Dispatchable("resources/list")
    /\ \A p \in pending : p.request # ListResourcesMessage
    /\ \/ Cardinality(InFlight) < MaxInFlight
       \/ SkipToListing(ObjectValues(_registeredResourceTemplates)) = << >>
    /\ ListResourcesContinue(
           ListResourcesMessage, << >>,
           ListedResources,
           ObjectValues(_registeredResourceTemplates),
           << >>)
    /\ UNCHANGED << peer, _capabilities, transport, _requestHandlers, registries >>

\* the awaited list callback returns `listing`
ListCallbackReturns(p, listing) ==
    /\ Awaited(p)
    /\ p.request.method = "resources/list"
    /\ ListResourcesContinue(
           p.request, Settle(p.calls, "returned", listing), p.held.resources, Tail(p.held.templates),
           p.held.templateResources \o MergedListing(Head(p.held.templates), listing))
    /\ UNCHANGED << peer, _capabilities, transport, _requestHandlers, registries >>

\* the awaited list callback throws or rejects
ListCallbackThrows(p, error) ==
    /\ Awaited(p)
    /\ p.request.method = "resources/list"
    /\ pending' = pending \ {p}
    /\ result' = Response(p.request, Settle(p.calls, "threw", error), Failure(error))
    /\ UNCHANGED << peer, _capabilities, transport, _requestHandlers, registries >>

(***************************************************************************)
(* resources/templates/list                                                *)
(***************************************************************************)
\* { name, uriTemplate: template.uriTemplate.toString(), ...template.metadata }
ListedTemplate(entry) ==
    Spread([name |-> entry.key, uriTemplate |-> entry.value.uriTemplate.pattern],
           MetadataFields(entry.value.metadata))

ListedTemplates ==
    LET entries == ObjectEntries(_registeredResourceTemplates)
    IN  [i \in 1..Len(entries) |-> ListedTemplate(entries[i])]

ListResourceTemplatesRequest ==
    /\ Dispatchable("resources/templates/list")
    /\ result' = Response([method |-> "resources/templates/list"], << >>,
                          Result(ListedTemplates))
    /\ UNCHANGED << peer, _capabilities, transport, _requestHandlers, registries, pending >>

(***************************************************************************)
(* resources/read                                                          *)
(***************************************************************************)
\* what read callbacks return
ReadResults == { [contents |-> << [text |-> "Hello"] >>] }

InvalidURL == ErrorInstance("Invalid URL")

Matches(template, href) == IsSome(Match(template.uriTemplate, href))

\* the first template, in the order of the loop, whose matcher yields variables
RECURSIVE FirstMatch(_, _)
FirstMatch(templates, href) ==
    IF templates = << >> THEN None
    ELSE IF Matches(Head(templates), href) THEN Some(Head(templates))
    ELSE FirstMatch(Tail(templates), href)

\* the templates in the order the loop visits them
TemplatesInOrder == ObjectValues(_registeredResourceTemplates)

\* the read callback the handler invokes for href, and its arguments
ReadInvocation(href) ==
    IF Truthy(_registeredResources, href)
    THEN Some(Invocation(OwnValue(_registeredResources, href).readCallback,
                         [uri |-> href, variables |-> None]))
    ELSE LET found == FirstMatch(TemplatesInOrder, href)
         IN  IF IsSome(found)
             THEN Some(Invocation(Get(found).readCallback,
                                  [uri |-> href,
                                   variables |-> Match(Get(found).uriTemplate, href)]))
             ELSE None

ReadResourceRequest(uri) ==
    LET request == [method |-> "resources/read", uri |-> uri, at |-> RegistriesNow]
    IN  /\ Dispatchable("resources/read")
        /\ IF ~Parses(uri)
           THEN /\ result' = Response(request, << >>, Failure(InvalidURL))
                /\ UNCHANGED pending
           ELSE IF ~IsSome(ReadInvocation(Href(uri)))
           THEN /\ result' = Response(request, << >>,
                                      McpError("InvalidParams", Href(uri)))
                /\ UNCHANGED pending
           ELSE /\ Cardinality(InFlight) < MaxInFlight
                /\ pending' = pending \cup
                      { Suspended(request, << Get(ReadInvocation(Href(uri))) >>,
                                  EmptyObject) }
                /\ result' = NoResult
        /\ UNCHANGED << peer, _capabilities, transport, _requestHandlers, registries >>

\* the read callback's promise resolves
ReadCallbackReturns(p, value) ==
    /\ Awaited(p)
    /\ p.request.method = "resources/read"
    /\ pending' = pending \ {p}
    /\ result' = Response(p.request, Settle(p.calls, "returned", value), Result(value))
    /\ UNCHANGED << peer, _capabilities, transport, _requestHandlers, registries >>

\* the fault is caught and returned as a result marked isError
ReadCallbackThrows_Downgraded(p, error) ==
    /\ Awaited(p)
    /\ p.request.method = "resources/read"
    /\ pending' = pending \ {p}
    /\ result' = Response(p.request, Settle(p.calls, "threw", error),
                          Result(ErrorResult(error)))
    /\ UNCHANGED << peer, _capabilities, transport, _requestHandlers, registries >>

\* the read callback throws or its promise rejects
ReadCallbackThrows(p, error) ==
    /\ Awaited(p)
    /\ p.request.method = "resources/read"
    /\ pending' = pending \ {p}
    /\ result' = Response(p.request, Settle(p.calls, "threw", error), Failure(error))
    /\ UNCHANGED << peer, _capabilities, transport, _requestHandlers, registries >>

(***************************************************************************)
(* The handshake.                                                          *)
(***************************************************************************)
LATEST_PROTOCOL_VERSION == "2024-11-05"
SUPPORTED_PROTOCOL_VERSIONS == { LATEST_PROTOCOL_VERSION, "2024-10-07" }

\* request.params.protocolVersion
RequestedVersions == { "2024-11-05", "2024-10-07", "1.0" }

\* request.params.capabilities
ClientCapabilities ==
    { NoCapabilities, [sampling |-> {}], [roots |-> {"listChanged"}, sampling |-> {}] }

\* request.params.clientInfo
ClientInfos == { [name |-> "client", version |-> "1.0"],
                 [name |-> "inspector", version |-> "0.2"] }

_serverInfo == [name |-> "server", version |-> "1.0.0"]

getCapabilities == _capabilities

\* the requested version is returned whether supported or not
NegotiatedVersion_Echoed(requestedVersion) == requestedVersion

\* SUPPORTED_PROTOCOL_VERSIONS.includes(requestedVersion) ? ... : ...
NegotiatedVersion(requestedVersion) ==
    IF requestedVersion \in SUPPORTED_PROTOCOL_VERSIONS
    THEN requestedVersion
    ELSE LATEST_PROTOCOL_VERSION

\* the initialize request reaches _oninitialize
InitializeRequest(protocolVersion, capabilities, clientInfo) ==
    /\ transport
    /\ _clientCapabilities' = Some(capabilities)
    /\ _clientVersion' = Some(clientInfo)
    /\ result' = Response([method |-> "initialize",
                           protocolVersion |-> protocolVersion,
                           capabilities |-> capabilities,
                           clientInfo |-> clientInfo],
                          << >>,
                          Result([protocolVersion |-> NegotiatedVersion(protocolVersion),
                                  capabilities |-> getCapabilities,
                                  serverInfo |-> _serverInfo]))
    /\ UNCHANGED << _capabilities, transport, _requestHandlers, registries, pending >>

(***************************************************************************)
(* Outbound requests and notifications.                                    *)
(***************************************************************************)
\* this._clientCapabilities?.[feature] read as a condition
ClientDeclares(feature) ==
    IsSome(_clientCapabilities) /\ feature \in DOMAIN Get(_clientCapabilities)

\* the guard looks at nothing
assertCapabilityForMethod_Lenient(method) == TRUE

\* whether assertCapabilityForMethod returns; it throws otherwise
assertCapabilityForMethod(method) ==
    CASE method = "sampling/createMessage" -> ClientDeclares("sampling")
      [] method = "roots/list" -> ClientDeclares("roots")
      [] method = "ping" -> TRUE
      [] OTHER -> TRUE

\* the guard looks at nothing
assertNotificationCapability_Lenient(method) == TRUE

\* whether assertNotificationCapability returns; it throws otherwise
assertNotificationCapability(method) ==
    CASE method = "notifications/message" -> Declared("logging")
      [] method \in { "notifications/resources/updated",
                      "notifications/resources/list_changed" } -> Declared("resources")
      [] method = "notifications/tools/list_changed" -> Declared("tools")
      [] method = "notifications/prompts/list_changed" -> Declared("prompts")
      [] method \in { "notifications/cancelled", "notifications/progress" } -> TRUE
      [] OTHER -> TRUE

\* a message placed on the wire, or the guard's refusal
Sent(kind, method) == [op |-> kind, method |-> method, threw |-> None]
Refused(kind, method) ==
    [op |-> kind, method |-> method, threw |-> Some("does not support")]

\* Protocol.request: the guard first, then the message goes out
OutboundRequest(method) ==
    /\ transport
    /\ result' = IF assertCapabilityForMethod(method)
                 THEN Sent("request", method)
                 ELSE Refused("request", method)
    /\ UNCHANGED << peer, _capabilities, transport, _requestHandlers, registries, pending >>

\* Protocol.notification: the guard first, then the message goes out
OutboundNotification(method) ==
    /\ transport
    /\ result' = IF assertNotificationCapability(method)
                 THEN Sent("notification", method)
                 ELSE Refused("notification", method)
    /\ UNCHANGED << peer, _capabilities, transport, _requestHandlers, registries, pending >>

ping == OutboundRequest("ping")
createMessage == OutboundRequest("sampling/createMessage")
listRoots == OutboundRequest("roots/list")

sendLoggingMessage == OutboundNotification("notifications/message")
sendResourceUpdated == OutboundNotification("notifications/resources/updated")
sendResourceListChanged == OutboundNotification("notifications/resources/list_changed")
sendToolListChanged == OutboundNotification("notifications/tools/list_changed")
sendPromptListChanged == OutboundNotification("notifications/prompts/list_changed")

(***************************************************************************)
(* Protocol.connect                                                        *)
(***************************************************************************)
Connect ==
    /\ ~transport
    /\ transport' = TRUE
    /\ result' = NoResult
    /\ UNCHANGED << peer, _capabilities, _requestHandlers, registries, pending >>

Init ==
    /\ _clientCapabilities = None
    /\ _clientVersion = None
    /\ _capabilities \in ConstructorCapabilities
    /\ transport = FALSE
    /\ _requestHandlers = [m \in Methods |-> "none"]
    /\ _registeredTools = << >>
    /\ _registeredResources = << >>
    /\ _registeredResourceTemplates = << >>
    /\ pending = {}
    /\ result = NoResult

ToolsNext ==
    \/ \E call \in ToolCalls : Tool(call[1], call[2])
    \/ Connect
    \/ ListToolsRequest
    \/ \E name \in ToolNames, arguments \in ToolArguments :
           CallToolRequest(name, arguments)
    \/ \E p \in pending, value \in ToolResults : ToolCallbackReturns(p, value)
    \/ \E p \in pending, error \in Faults : ToolCallbackThrows(p, error)

ResourcesNext ==
    \/ \E call \in ResourceCalls : Resource(call[1], call[2], call[3])
    \/ Connect
    \/ ListResourcesRequest
    \/ \E p \in pending, listing \in Listings : ListCallbackReturns(p, listing)
    \/ \E p \in pending, error \in Faults : ListCallbackThrows(p, error)
    \/ ListResourceTemplatesRequest
    \/ \E uri \in Addresses : ReadResourceRequest(uri)
    \/ \E p \in pending, value \in ReadResults : ReadCallbackReturns(p, value)
    \/ \E p \in pending, error \in Faults : ReadCallbackThrows(p, error)

Next == ToolsNext \/ ResourcesNext

\* the registrations of a session: a tool, a second call under its name, a
\* fixed resource and a template
SessionToolCalls == { call \in ToolCalls : call[1] = "now" }
SessionResourceCalls == { call \in ResourceCalls : call[1] \in {"greeting", "items"} }

\* the capability set, the handshake and what the server sends by itself
SessionNext ==
    \/ \E call \in SessionToolCalls : Tool(call[1], call[2])
    \/ \E call \in SessionResourceCalls : Resource(call[1], call[2], call[3])
    \/ \E capabilities \in RegisteredCapabilities : RegisterCapabilities(capabilities)
    \/ Connect
    \/ \E protocolVersion \in RequestedVersions, capabilities \in ClientCapabilities,
          clientInfo \in ClientInfos :
           InitializeRequest(protocolVersion, capabilities, clientInfo)
    \/ ping
    \/ createMessage
    \/ listRoots
    \/ sendLoggingMessage
    \/ sendResourceUpdated
    \/ sendResourceListChanged
    \/ sendToolListChanged
    \/ sendPromptListChanged

\* a server with a tool and a fixed resource whose callbacks never complete,
\* next to a tool, a template and a list callback that do
AwaitToolCalls ==
    { << "wait", << Fn("cbNever") >> >>,
      << "echo", << Obj(TextShape), Fn("cbEcho") >> >> }

AwaitResourceCalls ==
    { << "stalled", Str("mem://stalled"), << Fn("readNever") >> >>,
      << "items", Obj(ItemTemplate),
         << Obj(PlainText), Fn("listItems"), Fn("readItem") >> >> }

\* what a request is for: its method and the tool or address it names
Target(request) ==
    [method |-> request.method,
     to |-> CASE request.method = "tools/call" -> request.name
              [] request.method = "resources/read" -> request.uri
              [] OTHER -> ""]

Targets ==
    { [method |-> "tools/call", to |-> "wait"],
      [method |-> "tools/call", to |-> "echo"],
      [method |-> "resources/read", to |-> "mem://stalled"],
      [method |-> "resources/read", to |-> "mem://greeting"],
      [method |-> "resources/list", to |-> ""] }

\* the callback awaited by a handler settles and the handler runs on
Settles(p) ==
    \/ \E value \in ToolResults : ToolCallbackReturns(p, value)
    \/ \E error \in Faults : ToolCallbackThrows(p, error)
    \/ \E listing \in Listings : ListCallbackReturns(p, listing)
    \/ \E error \in Faults : ListCallbackThrows(p, error)
    \/ \E value \in ReadResults : ReadCallbackReturns(p, value)
    \/ \E error \in Faults : ReadCallbackThrows(p, error)

\* how many resources and templates the handler of a request found registered;
\* the registries only grow, so it tells apart the requests for one target
Seen(request) ==
    IF request.method \in {"resources/read", "resources/list"}
    THEN Len(request.at.resources) + Len(request.at.templates)
    ELSE 0

\* the handler suspended for `target` that found `seen` entries runs on
Resumes(target, seen) ==
    \E p \in pending :
        /\ Target(p.request) = target
        /\ Seen(p.request) = seen
        /\ Settles(p)

AwaitNext ==
    \/ \E call \in AwaitToolCalls : Tool(call[1], call[2])
    \/ \E call \in AwaitResourceCalls : Resource(call[1], call[2], call[3])
    \/ Connect
    \/ ListToolsRequest
    \/ \E name \in {"wait", "echo"} :
           CallToolRequest(name, Some([text |-> Str("hi")]))
    \/ ListResourcesRequest
    \/ \E uri \in {"mem://stalled", "mem://greeting"} : ReadResourceRequest(uri)
    \/ \E p \in pending, value \in ToolResults : ToolCallbackReturns(p, value)
    \/ \E p \in pending, error \in Faults : ToolCallbackThrows(p, error)
    \/ \E p \in pending, listing \in Listings : ListCallbackReturns(p, listing)
    \/ \E p \in pending, error \in Faults : ListCallbackThrows(p, error)
    \/ \E p \in pending, value \in ReadResults : ReadCallbackReturns(p, value)
    \/ \E p \in pending, error \in Faults : ReadCallbackThrows(p, error)

\* handlers installed by the registries and by the application
HandlersNext ==
    \/ \E call \in SessionToolCalls : Tool(call[1], call[2])
    \/ \E call \in SessionResourceCalls : Resource(call[1], call[2], call[3])
    \/ \E capabilities \in RegisteredCapabilities : RegisterCapabilities(capabilities)
    \/ \E method \in Methods : SetRequestHandler(method)
    \/ Connect

\* the whole server
Spec == Init /\ [][Next]_vars

HandlersSpec == Init /\ [][HandlersNext]_vars

\* the resource registries being filled, and the list request that reads
\* them without calling back
RegistrationNext ==
    \/ \E call \in ResourceCalls : Resource(call[1], call[2], call[3])
    \/ Connect
    \/ ListResourceTemplatesRequest

RegistrationSpec == Init /\ [][RegistrationNext]_vars

\* requests served while some callbacks never complete: a callback that does
\* complete is resumed by the event loop
AwaitSpec ==
    /\ Init
    /\ [][AwaitNext]_vars
    /\ \A target \in Targets : \A seen \in 0..MaxEntries :
          WF_vars(Resumes(target, seen))

SessionSpec == Init /\ [][SessionNext]_vars

\* the tool registry and its requests alone
ToolSpec == Init /\ [][ToolsNext]_vars

\* the resource registries and their requests alone
ResourceSpec == Init /\ [][ResourcesNext]_vars

(***************************************************************************)
(* Properties of the tool registry.                                        *)
(***************************************************************************)
IsResponseTo(method) == result.op = "response" /\ result.request.method = method

LastCall(calls) == calls[Len(calls)]

\* the latest step answered a tools/call whose callback threw `error`
ToolCallbackThrew ==
    /\ IsResponseTo("tools/call")
    /\ result.calls # << >>
    /\ Get(LastCall(result.calls).settled).how = "threw"

ThrownFault == Get(LastCall(result.calls).settled).with

\* C1: a tools/call whose callback throws or rejects completes with a result,
\* not a protocol error: exactly one text item holding the fault's message, or
\* its string form when it carries none, and isError set; with or without an
\* input shape.
C1_ThrownFaultBecomesErrorResult ==
    ToolCallbackThrew =>
        /\ result.outcome.kind = "result"
        /\ result.outcome.value.isError = Some(TRUE)
        /\ Len(result.outcome.value.content) = 1
        /\ result.outcome.value.content[1].type = "text"
        /\ result.outcome.value.content[1].text =
              IF IsSome(ThrownFault.message)
              THEN Get(ThrownFault.message)
              ELSE ThrownFault.string

\* a tool without an input shape threw a value that is no Error
C1_Witness ==
    /\ ToolCallbackThrew
    /\ ~IsSome(OwnValue(_registeredTools, result.request.name).inputSchema)
    /\ ~ThrownFault.instanceofError
    /\ result.outcome.kind = "result"

\* the arguments lack a field of the shape, or hold it with another type
FailsShape(shape, arguments) ==
    \/ arguments = None
    \/ \E f \in DOMAIN shape :
          \/ f \notin DOMAIN Get(arguments)
          \/ Get(arguments)[f].type # shape[f]

\* the response `r` answers a tools/call of a registered tool with a declared
\* input shape that the arguments fail
IsInvalidCall(r) ==
    /\ r.op = "response"
    /\ r.request.method = "tools/call"
    /\ HasOwn(_registeredTools, r.request.name)
    /\ IsSome(OwnValue(_registeredTools, r.request.name).inputSchema)
    /\ FailsShape(Get(OwnValue(_registeredTools, r.request.name).inputSchema),
                  r.request.arguments)

\* C2: arguments that fail the declared input shape never reach the callback
\* and yield an "invalid params" error; the step leaves the server as it was,
\* so later requests are served as before.
C2_InvalidArgumentsRejected ==
    /\ [](IsInvalidCall(result) =>
            /\ result.calls = << >>
            /\ result.outcome.kind = "error"
            /\ result.outcome.code = "InvalidParams")
    /\ [][IsInvalidCall(result)' =>
            UNCHANGED << _capabilities, transport, _requestHandlers,
                         registries, pending >>]_vars

\* a call of echo with an empty argument object was refused
C2_Witness ==
    /\ IsInvalidCall(result)
    /\ result.request.arguments = Some(EmptyObject)
    /\ result.outcome.kind = "error"

\* C3: tools/call of a name that was never registered fails with "invalid
\* params" and invokes no callback; it never yields a result.
C3_UnregisteredToolIsInvalidParams ==
    (IsResponseTo("tools/call") /\ ~HasOwn(_registeredTools, result.request.name)) =>
        /\ result.calls = << >>
        /\ result.outcome.kind = "error"
        /\ result.outcome.code = "InvalidParams"

\* the entries of tools/list with the name `name`
ListedAs(value, name) == { i \in 1..Len(value) : value[i].name = name }

\* tools/list reports one entry per registered name, with its own description
\* and the rendering of its own input shape
ToolsListedExactly ==
    IsResponseTo("tools/list") =>
        LET value == result.outcome.value
        IN  /\ result.outcome.kind = "result"
            /\ Len(value) = Len(_registeredTools)
            /\ \A i \in 1..Len(_registeredTools) :
                  LET tool == _registeredTools[i].value
                      listed == ListedAs(value, _registeredTools[i].key)
                  IN  /\ Cardinality(listed) = 1
                      /\ \A j \in listed :
                            /\ value[j].description = tool.description
                            /\ value[j].inputSchema =
                                  IF tool.inputSchema = None
                                  THEN [type |-> "object"]
                                  ELSE [type |-> "object",
                                        properties |->
                                            [f \in DOMAIN Get(tool.inputSchema) |->
                                                [type |-> Get(tool.inputSchema)[f]]],
                                        required |-> DOMAIN Get(tool.inputSchema)]

\* C4: registering pairwise distinct tool names, every registration call
\* succeeds, and tools/list then reports exactly one entry per registered name
\* with that tool's description and input schema.
C4_DistinctToolsAllRegister ==
    /\ [][(result'.op = "tool" /\ ~HasOwn(_registeredTools, result'.key)) =>
            result'.threw = None]_vars
    /\ []ToolsListedExactly

\* the step is a registration of `op` under a key its registry does not hold
FreshRegistration(op, registry) ==
    /\ result'.op = op
    /\ ~Truthy(registry, result'.key)

\* C5: the first registration of a kind installs that kind's handlers and
\* declares its capability; every later registration of the kind succeeds and
\* reuses the installed handlers.
C5_LaterRegistrationsReuseHandlers ==
    /\ [](Installed(ToolMethods) => Declared("tools"))
    /\ [](Installed(ResourceMethods) => Declared("resources"))
    /\ [][(FreshRegistration("tool", _registeredTools) /\ Installed(ToolMethods)) =>
            (result'.threw = None /\ UNCHANGED _requestHandlers)]_vars
    /\ [][((\/ FreshRegistration("resource", _registeredResources)
            \/ FreshRegistration("template", _registeredResourceTemplates))
           /\ Installed(ResourceMethods)) =>
            (result'.threw = None /\ UNCHANGED _requestHandlers)]_vars

\* C6: registering a tool under a name that is already registered fails with a
\* configuration error and leaves the registry entry and tools/list as they
\* were.
C6_DuplicateToolRefused ==
    [][(result'.op = "tool" /\ HasOwn(_registeredTools, result'.key)) =>
          /\ result'.threw = Some("already registered")
          /\ UNCHANGED _registeredTools
          /\ ListToolsResult' = ListToolsResult]_vars

\* a second registration of a registered name was refused
C6_Witness ==
    /\ result.op = "tool"
    /\ result.threw = Some("already registered")
    /\ HasOwn(_registeredTools, result.key)
    /\ OwnValue(_registeredTools, result.key).callback = Some("cbEcho")

(***************************************************************************)
(* Properties of the resource registries.                                  *)
(***************************************************************************)
\* the registries as the handler of the answered request found them
At == result.request.at

\* C7: resources/read of an address registered as a fixed resource returns the
\* result of that resource's read callback; the fixed match comes first, no
\* template matcher result is used and no template read callback is invoked.
C7_FixedAddressReadsItsResource ==
    (IsResponseTo("resources/read") /\ HasOwn(At.resources, result.request.uri)) =>
        /\ Len(result.calls) = 1
        /\ result.calls[1].fn =
              OwnValue(At.resources, result.request.uri).readCallback
        /\ result.calls[1].args.variables = None
        /\ Get(result.calls[1].settled).how = "returned" =>
              result.outcome = Result(Get(result.calls[1].settled).with)

\* the templates, in the order they were registered, that match href
RegisteredMatches(templates, href) ==
    { i \in 1..Len(templates) : Match(templates[i].value.uriTemplate, href) # None }

FirstRegisteredMatch(templates, href) ==
    templates[CHOOSE i \in RegisteredMatches(templates, href) :
                 \A j \in RegisteredMatches(templates, href) : i <= j].value

\* the answered resources/read is of an address that parses, is no fixed
\* resource, and is matched by a template
IsTemplateRead ==
    /\ IsResponseTo("resources/read")
    /\ Parses(result.request.uri)
    /\ ~HasOwn(At.resources, result.request.uri)
    /\ ~HasOwn(At.resources, Href(result.request.uri))
    /\ RegisteredMatches(At.templates, Href(result.request.uri)) # {}

\* C8: for an address that matches no fixed resource, resources/read invokes
\* the read callback of the first template, in registration order, whose
\* matcher yields variables, with exactly those variables, and no other
\* callback.
C8_FirstRegisteredTemplateReads ==
    IsTemplateRead =>
        LET template == FirstRegisteredMatch(At.templates, Href(result.request.uri))
        IN  /\ Len(result.calls) = 1
            /\ result.calls[1].fn = template.readCallback
            /\ result.calls[1].args.variables =
                  Match(template.uriTemplate, Href(result.request.uri))

\* C9: resources/read of an address that is no fixed resource and that no
\* template matches fails with "invalid params" naming the address, and
\* invokes no read callback.
C9_UnmatchedAddressIsInvalidParams ==
    (/\ IsResponseTo("resources/read")
     /\ ~HasOwn(At.resources, result.request.uri)
     /\ \A i \in 1..Len(At.templates) :
           Match(At.templates[i].value.uriTemplate, result.request.uri) = None) =>
        /\ result.calls = << >>
        /\ result.outcome.kind = "error"
        /\ result.outcome.code = "InvalidParams"
        /\ result.outcome.about \in {result.request.uri, Href(result.request.uri)}

\* the fields of `entry`, except that a field of `metadata` has metadata's value
Overridden(entry, metadata) ==
    [k \in (DOMAIN entry) \cup (DOMAIN MetadataFields(metadata)) |->
        IF k \in DOMAIN MetadataFields(metadata)
        THEN MetadataFields(metadata)[k]
        ELSE entry[k]]

\* the registered template whose list callback is fn
ListedBy(templates, fn) ==
    templates[CHOOSE i \in 1..Len(templates) :
                 templates[i].value.listCallback = Some(fn)].value

\* what the list callbacks of `calls` enumerated, merged with their
\* templates' metadata
RECURSIVE Enumerated(_, _)
Enumerated(templates, calls) ==
    IF calls = << >> THEN << >>
    ELSE LET listing == Get(Head(calls).settled).with
             metadata == ListedBy(templates, Head(calls).fn).metadata
         IN  [i \in 1..Len(listing) |-> Overridden(listing[i], metadata)]
                 \o Enumerated(templates, Tail(calls))

\* the fixed resource `entry` as resources/list reports it
IsListedAs(listed, entry) ==
    listed = Overridden([uri |-> entry.key, name |-> entry.value.name],
                        entry.value.metadata)

\* C10: resources/list returns every fixed resource as {uri, name,
\* ...metadata}, followed by what the list callback of each template that has
\* one enumerates, each entry merged with the template's metadata, whose
\* fields override the entry's; templates without a list callback are not
\* asked and nothing else is returned.
C10_ResourcesListed ==
    (IsResponseTo("resources/list") /\ result.outcome.kind = "result") =>
        LET value == result.outcome.value
            fixed == Len(At.resources)
            listing == { i \in 1..Len(At.templates) :
                            At.templates[i].value.listCallback # None }
        IN  /\ Len(value) >= fixed
            /\ \A i \in 1..fixed :
                  \E j \in 1..fixed : IsListedAs(value[j], At.resources[i])
            /\ Len(result.calls) = Cardinality(listing)
            /\ \A i \in listing :
                  \E c \in 1..Len(result.calls) :
                      Some(result.calls[c].fn) = At.templates[i].value.listCallback
            /\ SubSeq(value, fixed + 1, Len(value))
                  = Enumerated(At.templates, result.calls)

\* a fixed resource with metadata, a template whose metadata overrides a field
\* of what it enumerates, and a template without a list callback were listed
C10_Witness ==
    /\ IsResponseTo("resources/list")
    /\ result.outcome.kind = "result"
    /\ \E i \in 1..Len(At.resources) : At.resources[i].value.metadata # None
    /\ \E i \in 1..Len(At.templates) : At.templates[i].value.listCallback = None
    /\ \E c \in 1..Len(result.calls) :
          /\ ListedBy(At.templates, result.calls[c].fn).metadata = Some(PlainText)
          /\ Get(result.calls[c].settled).with = << ItemA, ItemB >>
    /\ Len(result.outcome.value) = 3

(***************************************************************************)
(* Properties of the handshake and of the capability guards.               *)
(***************************************************************************)
\* C11: every initialization request is answered with a result, never an
\* error: the negotiated version is the requested one when it is supported and
\* the latest supported one otherwise, and the result carries this side's
\* current capability set and identity.
C11_HandshakeNegotiatesVersion ==
    IsResponseTo("initialize") =>
        /\ result.outcome.kind = "result"
        /\ result.request.protocolVersion \in {"2024-11-05", "2024-10-07"} =>
              result.outcome.value.protocolVersion = result.request.protocolVersion
        /\ result.request.protocolVersion \notin {"2024-11-05", "2024-10-07"} =>
              result.outcome.value.protocolVersion = "2024-11-05"
        /\ result.outcome.value.capabilities = _capabilities
        /\ result.outcome.value.serverInfo = [name |-> "server", version |-> "1.0.0"]

\* an unsupported version was asked for, by a server whose resources
\* capability was declared by a registration
C11_Witness ==
    /\ IsResponseTo("initialize")
    /\ result.request.protocolVersion = "1.0"
    /\ result.outcome.kind = "result"
    /\ result.outcome.value.protocolVersion = "2024-11-05"
    /\ "resources" \in DOMAIN result.outcome.value.capabilities

\* the peer capability set recorded now declares `feature`
PeerDeclares(feature) ==
    _clientCapabilities # None /\ feature \in DOMAIN _clientCapabilities[1]

\* C12: an outbound request is guarded when it is sent, against the peer
\* capability set recorded then: sampling/createMessage goes out only if the
\* peer declared sampling, roots/list only if it declared roots, so both are
\* refused while no handshake has recorded peer capabilities; ping always
\* goes out.  A refused request places nothing on the wire.
C12_OutboundRequestGuard ==
    result.op = "request" =>
        /\ result.method = "sampling/createMessage" =>
              (result.threw = None <=> PeerDeclares("sampling"))
        /\ result.method = "roots/list" =>
              (result.threw = None <=> PeerDeclares("roots"))
        /\ result.method = "ping" => result.threw = None
        /\ (_clientCapabilities = None /\ result.method # "ping") =>
              result.threw # None

\* roots/list was refused to a peer whose handshake declared sampling only
C12_Witness ==
    /\ result.op = "request"
    /\ result.method = "roots/list"
    /\ result.threw # None
    /\ _clientCapabilities = Some([sampling |-> {}])

\* the own capability a notification method needs, "" when it needs none
NeededForNotification(method) ==
    CASE method = "notifications/message" -> "logging"
      [] method = "notifications/resources/updated" -> "resources"
      [] method = "notifications/resources/list_changed" -> "resources"
      [] method = "notifications/tools/list_changed" -> "tools"
      [] method = "notifications/prompts/list_changed" -> "prompts"
      [] OTHER -> ""

\* C13: an outbound notification is guarded when it is sent, against this
\* side's capability set of that moment: notifications/message needs logging,
\* resources/updated and resources/list_changed need resources,
\* tools/list_changed needs tools, prompts/list_changed needs prompts, however
\* the capability came to be declared; otherwise the send fails and nothing
\* is sent.
C13_OutboundNotificationGuard ==
    result.op = "notification" =>
        /\ NeededForNotification(result.method) # ""
        /\ result.threw = None <=>
              NeededForNotification(result.method) \in DOMAIN _capabilities

\* resources/list_changed went out on a capability that only a resource
\* registration declared
C13_Witness ==
    /\ result.op = "notification"
    /\ result.method = "notifications/resources/list_changed"
    /\ result.threw = None
    /\ DOMAIN _capabilities = {"resources"}
    /\ _registeredResources # << >>

\* the step is a call that registers capabilities, by itself or for a registry
IsCapabilityRegistration(r) ==
    r.op \in {"registerCapabilities", "tool", "resource", "template"}

\* C14: once a transport is attached the own capability set never changes,
\* and every capability registration attempted from then on fails with a
\* configuration error.
C14_CapabilitiesFrozenOnceAttached ==
    [][transport =>
          /\ _capabilities' = _capabilities
          /\ IsCapabilityRegistration(result') => result'.threw # None]_vars

\* registerCapabilities was refused on an attached server that declares
\* nothing
C14_Witness ==
    /\ transport
    /\ result.op = "registerCapabilities"
    /\ result.threw = Some("Cannot register capabilities after connecting to transport")
    /\ _capabilities = NoCapabilities

\* C15: the recorded peer capability set and peer identity are absent until a
\* handshake is processed, are set by it exactly once, and never change
\* afterwards, whatever happens later, a further initialization request
\* included.
C15_PeerIdentitySetOnce ==
    [][peer' # peer =>
          /\ peer = << None, None >>
          /\ result'.op = "response"
          /\ result'.request.method = "initialize"]_vars

(***************************************************************************)
(* Properties of callbacks, handlers and registrations.                    *)
(***************************************************************************)
\* the latest step answered a resources/read whose read callback threw
ReadCallbackThrew ==
    /\ IsResponseTo("resources/read")
    /\ result.calls # << >>
    /\ LastCall(result.calls).settled # None
    /\ LastCall(result.calls).settled[1].how = "threw"

\* C16: a fault raised by the read callback of a fixed resource or of a
\* template ends resources/read in a failure handed to the dispatch layer,
\* never in a result, marked isError or not.
C16_ReadFaultPropagates ==
    ReadCallbackThrew =>
        /\ result.outcome.kind = "error"
        /\ result.outcome.code # "InvalidParams"
        /\ result.outcome.about = LastCall(result.calls).settled[1].with.string

\* the read callback of a template, invoked with extracted variables, threw
C16_Witness ==
    /\ ReadCallbackThrew
    /\ LastCall(result.calls).args.variables = Some([id |-> "greeting"])
    /\ result.outcome.kind = "error"

\* a handler suspended for `target` is still waiting
Waiting(target) == \E p \in pending : Target(p.request) = target

\* C17: requests in flight are awaited independently of each other: a
\* callback that never completes keeps its own request pending and no other;
\* every tools/call, resources/read or resources/list whose callbacks complete
\* is answered eventually, whatever else is in flight.
C17_RequestsAwaitedIndependently ==
    /\ [][\A p \in pending :
             p.calls[Len(p.calls)].fn \in NeverCompletes => p \in pending']_vars
    /\ \A target \in { [method |-> "tools/call", to |-> "echo"],
                        [method |-> "resources/read", to |-> "mem://greeting"],
                        [method |-> "resources/list", to |-> ""] } :
          Waiting(target) ~> ~Waiting(target)

\* a tools/call was answered while a tools/call and a resources/read were
\* waiting for callbacks that never complete
C17_Witness ==
    /\ IsResponseTo("tools/call")
    /\ result.request.name = "echo"
    /\ result.calls # << >>
    /\ \E p \in pending : p.request.method = "tools/call"
    /\ \E p \in pending : p.request.method = "resources/read"

\* the entries of a registry that were added after its first one, hence after
\* the handlers were installed
AddedLater(registry) == { i \in 1..Len(registry) : i >= 2 }

\* the answered request found every later entry: the list requests report it,
\* tools/call and resources/read of it get to its callback
LaterEntriesServed ==
    /\ IsResponseTo("tools/list") =>
          \A i \in AddedLater(_registeredTools) :
              \E j \in 1..Len(result.outcome.value) :
                  result.outcome.value[j].name = _registeredTools[i].key
    /\ IsResponseTo("tools/call") =>
          \A i \in AddedLater(_registeredTools) :
              (/\ result.request.name = _registeredTools[i].key
               /\ ~IsInvalidCall(result)) =>
                  /\ result.calls # << >>
                  /\ Some(result.calls[1].fn) = _registeredTools[i].value.callback
    /\ (IsResponseTo("resources/list") /\ result.outcome.kind = "result") =>
          \A i \in AddedLater(At.resources) :
              \E j \in 1..Len(result.outcome.value) :
                  result.outcome.value[j].uri = At.resources[i].key
    /\ IsResponseTo("resources/templates/list") =>
          \A i \in AddedLater(_registeredResourceTemplates) :
              \E j \in 1..Len(result.outcome.value) :
                  result.outcome.value[j].name = _registeredResourceTemplates[i].key
    /\ IsResponseTo("resources/read") =>
          \A i \in AddedLater(At.resources) :
              result.request.uri = At.resources[i].key =>
                  /\ result.calls # << >>
                  /\ result.calls[1].fn = At.resources[i].value.readCallback

\* C18: handlers once installed stay installed, and serve every entry that
\* enters their registry afterwards: the list requests report it and
\* tools/call or resources/read reach it, with no further installation.
C18_InstalledHandlersServeLaterEntries ==
    /\ [][/\ Installed(ToolMethods) => Installed(ToolMethods)'
          /\ Installed(ResourceMethods) => Installed(ResourceMethods)']_vars
    /\ []LaterEntriesServed

\* the step is a registration of `op` under a key that `registry` holds
SecondRegistration(op, registry) ==
    /\ result'.op = op
    /\ HasOwn(registry, result'.key)

\* the step is refused as a duplicate and changes neither the resource
\* registries nor what the two list requests report
RefusedAsDuplicate ==
    /\ result'.threw = Some("already registered")
    /\ UNCHANGED << _registeredResources, _registeredResourceTemplates >>
    /\ ListedResources' = ListedResources
    /\ ListedTemplates' = ListedTemplates

\* C19: a fixed resource at an address that is registered, and a template
\* under a template name that is registered, are refused, leaving the earlier
\* entry and what resources/list and resources/templates/list report as they
\* were; addresses and template names are separate key spaces, so a key held
\* by one registry alone is never refused as a duplicate by the other.
C19_ResourceKeysStayUnique ==
    [][/\ SecondRegistration("resource", _registeredResources) => RefusedAsDuplicate
       /\ SecondRegistration("template", _registeredResourceTemplates) =>
              RefusedAsDuplicate
       /\ (/\ SecondRegistration("resource", _registeredResourceTemplates)
           /\ ~HasOwn(_registeredResources, result'.key)) =>
              result'.threw # Some("already registered")
       /\ (/\ SecondRegistration("template", _registeredResources)
           /\ ~HasOwn(_registeredResourceTemplates, result'.key)) =>
              result'.threw # Some("already registered")]_vars

\* a template was registered under a name that is also the address of a fixed
\* resource, and a second template under that name was then refused
C19_Witness ==
    /\ result.op = "template"
    /\ result.threw = Some("already registered")
    /\ HasOwn(_registeredResources, result.key)
    /\ HasOwn(_registeredResourceTemplates, result.key)
    /\ OwnValue(_registeredResourceTemplates, result.key).readCallback = "readExact"

\* C20: the own capability set only grows: a feature or sub-option declared at
\* construction or by an earlier registration is still declared after every
\* capability, tool or resource registration.
C20_CapabilitiesOnlyGrow ==
    [][\A feature \in DOMAIN _capabilities :
          /\ feature \in DOMAIN _capabilities'
          /\ _capabilities[feature] \subseteq _capabilities'[feature]]_vars

\* a tool registration declared tools lazily on a set that already held the
\* sub-option tools.listChanged, logging and prompts
C20_Witness ==
    /\ result.op = "tool"
    /\ result.threw = None
    /\ "listChanged" \in _capabilities["tools"]
    /\ {"logging", "prompts"} \subseteq DOMAIN _capabilities

\* the step is a tool, resource or template registration that threw
FailedRegistration ==
    /\ result'.op \in {"tool", "resource", "template"}
    /\ result'.threw # None

\* C21: a registration call that fails with a configuration error (duplicate
\* key, capability declaration refused on an attached server, handler
\* installation refused) leaves the three registries as they were, and with
\* them what tools/list, tools/call, resources/list and resources/read answer.
C21_FailedRegistrationChangesNothing ==
    [][FailedRegistration =>
          /\ UNCHANGED << _registeredTools, _registeredResources,
                          _registeredResourceTemplates >>
          /\ ListToolsResult' = ListToolsResult
          /\ ListedResources' = ListedResources
          /\ ListedTemplates' = ListedTemplates]_vars

\* a handler for `method` is installed, whoever installed it
HasHandler(method) == _requestHandlers[method] # "none"

\* C22: a handler gated by a capability is installed only while that own
\* capability is declared: one for tools/list or tools/call only with tools,
\* one for resources/list, resources/templates/list or resources/read only
\* with resources; an attempt to install one without the capability fails and
\* installs nothing.
C22_GatedHandlersNeedCapability ==
    /\ [](/\ \A method \in {"tools/list", "tools/call"} :
                HasHandler(method) => "tools" \in DOMAIN _capabilities
          /\ \A method \in {"resources/list", "resources/templates/list",
                               "resources/read"} :
                HasHandler(method) => "resources" \in DOMAIN _capabilities)
    /\ [][\A method \in {"tools/list", "tools/call"} :
             (/\ result'.op = "setRequestHandler"
              /\ result'.key = method
              /\ "tools" \notin DOMAIN _capabilities) =>
                 (result'.threw # None /\ UNCHANGED _requestHandlers)]_vars
    /\ [][\A method \in {"resources/list", "resources/templates/list",
                           "resources/read"} :
             (/\ result'.op = "setRequestHandler"
              /\ result'.key = method
              /\ "resources" \notin DOMAIN _capabilities) =>
                 (result'.threw # None /\ UNCHANGED _requestHandlers)]_vars

\* the application was refused a resources/read handler on a server that
\* declares tools and has its tool handlers installed, but no resources
C22_Witness ==
    /\ result.op = "setRequestHandler"
    /\ result.key = "resources/read"
    /\ result.threw # None
    /\ "resources" \notin DOMAIN _capabilities
    /\ _requestHandlers["resources/read"] = "none"
    /\ _requestHandlers["tools/call"] = "server"
====
